---- MODULE Spec2Model ----
(***************************************************************************)
(* Model of the autodialer core of main.py: the phone-number store kept in *)
(* data/phone_numbers.json and the request handlers that read and write    *)
(* it (upload_numbers, ai_call, bulk_call, call_status_webhook,            *)
(* simulate_call_complete, clear_all).                                     *)
(*                                                                         *)
(* All handlers are `async def` and run on one event loop, so a handler    *)
(* runs without interruption except where it awaits.  The only await that  *)
(* lies between a load and a save of the store is `await file.read()` in   *)
(* upload_numbers; that handler is therefore two steps, every other        *)
(* handler is one.                                                         *)
(*                                                                         *)
(* Text is modelled as a sequence of one-character strings.  A Python      *)
(* value that may be None is modelled as a sequence of length at most one: *)
(* <<>> is None and <<v>> is the value v.                                  *)
(***************************************************************************)
EXTENDS Integers, Sequences, FiniteSets, TLC

VARIABLES
    store,          \* the list saved in PHONE_NUMBERS_FILE
    twilio_client,  \* whether the Twilio client was configured at start-up
    upload,         \* the upload_numbers coroutine suspended at file.read()
    nextSid,        \* how many calls the provider has accepted so far
    live,           \* call sids returned by a dispatch since the last clear_all
    last            \* the request handled by the last step and its response

vars == <<store, twilio_client, upload, nextSid, live, last>>

----------------------------------------------------------------------------
(* Bounds of the model *)

\* Number of calls the provider accepts in one behaviour.
MaxCalls == 2

----------------------------------------------------------------------------
(* Text *)

None == <<>>
Some(v) == <<v>>

Digit == {"0", "1", "2", "3", "4", "5", "6", "7", "8", "9"}
\* What str.strip() removes and what \s matches, among the characters used.
Whitespace == {" ", "\t", "\n", "\r"}

RECURSIVE LStrip(_)
LStrip(s) ==
    IF s # <<>> /\ Head(s) \in Whitespace THEN LStrip(Tail(s)) ELSE s

RECURSIVE RStrip(_)
RStrip(s) ==
    IF s # <<>> /\ s[Len(s)] \in Whitespace
    THEN RStrip(SubSeq(s, 1, Len(s) - 1))
    ELSE s

\* str.strip()
Strip(s) == RStrip(LStrip(s))

\* str.split(sep) for a one-character separator: always at least one piece.
RECURSIVE SplitFrom(_, _, _)
SplitFrom(s, sep, piece) ==
    IF s = <<>> THEN <<piece>>
    ELSE IF Head(s) = sep THEN <<piece>> \o SplitFrom(Tail(s), sep, <<>>)
    ELSE SplitFrom(Tail(s), sep, Append(piece, Head(s)))

Split(s, sep) == SplitFrom(s, sep, <<>>)

\* re.sub(r'[\s\-\(\)]', '', s)
RemovedByNormalize == Whitespace \cup {"-", "(", ")"}

RECURSIVE RemoveAll(_, _)
RemoveAll(s, chars) ==
    IF s = <<>> THEN <<>>
    ELSE IF Head(s) \in chars THEN RemoveAll(Tail(s), chars)
    ELSE <<Head(s)>> \o RemoveAll(Tail(s), chars)

\* The pattern [\+\d][\d\s\-\(\)]{8,} of ai_call.
PhoneFirst == {"+"} \cup Digit
PhoneRest == Digit \cup Whitespace \cup {"-", "(", ")"}
MinRest == 8

\* Faulty variant: one character of the class is enough
MatchesAtOne(s, i) == s[i] \in PhoneFirst

MatchesAt(s, i) ==
    /\ s[i] \in PhoneFirst
    /\ i + MinRest <= Len(s)
    /\ \A j \in (i + 1)..(i + MinRest) : s[j] \in PhoneRest

MatchStarts(s) == {i \in 1..Len(s) : MatchesAt(s, i)}

\* re.search: the leftmost match, extended greedily; None when there is none.
PhoneSearch(s) ==
    IF MatchStarts(s) = {} THEN None
    ELSE LET i == CHOOSE k \in MatchStarts(s) : \A m \in MatchStarts(s) : k <= m
             e == CHOOSE k \in i..Len(s) :
                     /\ \A j \in (i + 1)..k : s[j] \in PhoneRest
                     /\ k = Len(s) \/ s[k + 1] \notin PhoneRest
         IN  Some(SubSeq(s, i, e))

\* number = re.sub(r'[\s\-\(\)]', '', phone_match.group().strip())
ExtractNumber(group) == RemoveAll(Strip(group), RemovedByNormalize)

\* int(call_duration) for an unsigned decimal numeral; None stands for ValueError.
DigitValue(c) ==
    CASE c = "0" -> 0 [] c = "1" -> 1 [] c = "2" -> 2 [] c = "3" -> 3
      [] c = "4" -> 4 [] c = "5" -> 5 [] c = "6" -> 6 [] c = "7" -> 7
      [] c = "8" -> 8 [] c = "9" -> 9

RECURSIVE DigitsValue(_, _)
DigitsValue(s, acc) ==
    IF s = <<>> THEN acc ELSE DigitsValue(Tail(s), 10 * acc + DigitValue(Head(s)))

ParseInt(s) ==
    LET t == Strip(s)
    IN  IF t # <<>> /\ \A i \in 1..Len(t) : t[i] \in Digit
        THEN Some(DigitsValue(t, 0))
        ELSE None

----------------------------------------------------------------------------
(* Requests *)

N1 == <<"+", "1", "5", "5", "5", "1", "2", "3", "4", "5", "6", "7">>
N2 == <<"+", "1", "5", "5", "5", "7", "6", "5", "4", "3", "2", "1">>

\* numbers_text form values: a number twice and a padded second number, a
\* single number, and blank lines only.
Texts ==
    { N1 \o <<"\n">> \o N1 \o <<"\n", " ">> \o N2 \o <<" ">>,
      N2,
      <<" ", "\n">> }

\* Uploaded CSV files: two rows with an empty row between them, and one
\* padded row.
Files ==
    { N1 \o <<",", "B", "o", "b", "\n", "\n">> \o N2 \o <<"\n">>,
      <<" ">> \o N2 }

\* Commands sent to ai_call: "call +1 (555) 123-4567", "dial +15557654321 now"
\* and one without a number.
Commands ==
    { <<"c", "a", "l", "l", " ", "+", "1", " ", "(", "5", "5", "5", ")", " ",
        "1", "2", "3", "-", "4", "5", "6", "7">>,
      <<"d", "i", "a", "l", " ">> \o N2 \o <<" ", "n", "o", "w">>,
      <<"h", "e", "l", "l", "o", " ", "1", "2", "3">> }

\* str(call_error) of the exceptions twilio_client.calls.create raises.
ProviderErrors == {"HTTP 400 error: Unable to create record"}

\* The call sid the provider returns for its n-th accepted call.
SidOf(n) == "CA" \o ToString(n)

\* CallSid, CallStatus and CallDuration form values of a status callback.
CallSids == {""} \cup {SidOf(n) : n \in 1..MaxCalls}
CallStatuses == {"completed", "ringing"}
CallDurations == {<<"4", "2">>, <<>>}

\* statuses and the bounds of random.randint in simulate_call_complete
SimulatedStatuses == {"completed", "failed", "busy", "no-answer"}
SimMinDuration == 10
SimMaxDuration == 180
SimulatedDurations == {SimMinDuration}

\* What the handlers compute from a request alone, evaluated once per request
\* value: the match of the pattern in a command, the candidates of a
\* numbers_text value and of a file, the integer of a CallDuration value.
phone_match_of == [command \in Commands |-> PhoneSearch(command)]
candidates_of_text == [numbers_text \in Texts |-> Split(numbers_text, "\n")]
duration_of == [call_duration \in CallDurations |-> ParseInt(call_duration)]

----------------------------------------------------------------------------
(* The store *)

\* datetime.utcnow().isoformat().  Nothing modelled compares two readings
\* except for equality, so time is counted in calls the provider has accepted:
\* readings taken after different calls differ.
TimeAfter(calls) == calls
utcnow == TimeAfter(nextSid)

\* The record upload_numbers and ai_call append.
NewRecord(id, number, t) ==
    [ id |-> id, number |-> number, status |-> "pending", duration |-> 0,
      call_sid |-> None, created_at |-> t, called_at |-> None, notes |-> "" ]

load_phone_numbers == store

\* save_phone_numbers(data): the file holds data afterwards.
save_phone_numbers(data) == store' = data

HasNumber(phone_numbers, number) ==
    \E i \in 1..Len(phone_numbers) : phone_numbers[i].number = number

\* Faulty variant: the default is taken whatever the list holds
MaxIdDefault(phone_numbers) == 0

\* max([p['id'] for p in phone_numbers], default=0)
MaxId(phone_numbers) ==
    IF phone_numbers = <<>> THEN 0
    ELSE LET ids == {phone_numbers[i].id : i \in 1..Len(phone_numbers)}
         IN  CHOOSE m \in ids : \A k \in ids : k <= m

\* The candidate in the first column of each row csv.reader yields: an empty
\* line is the row [], which has no first column.
RECURSIVE FirstColumns(_)
FirstColumns(lines) ==
    IF lines = <<>> THEN <<>>
    ELSE IF Head(lines) = <<>> THEN FirstColumns(Tail(lines))
    ELSE <<Head(Split(Head(lines), ","))>> \o FirstColumns(Tail(lines))

candidates_of_file == [contents \in Files |-> FirstColumns(Split(contents, "\n"))]

\* Faulty variant: a skipped duplicate is counted
RECURSIVE ScanCountsDuplicates(_, _, _, _)
ScanCountsDuplicates(phone_numbers, candidates, t, count) ==
    IF candidates = <<>>
    THEN [phone_numbers |-> phone_numbers, count |-> count]
    ELSE LET number == Strip(Head(candidates))
         IN  IF number = <<>>
             THEN ScanCountsDuplicates(phone_numbers, Tail(candidates), t, count)
             ELSE IF ~HasNumber(phone_numbers, number)
             THEN ScanCountsDuplicates(
                      Append(phone_numbers,
                             NewRecord(Len(phone_numbers) + 1, number, t)),
                      Tail(candidates), t, count + 1)
             ELSE ScanCountsDuplicates(phone_numbers, Tail(candidates), t,
                                       count + 1)

\* The loop of upload_numbers over the candidates: strip, skip the empty and
\* the already present, append a pending record with id len + 1.
RECURSIVE Scan(_, _, _, _)
Scan(phone_numbers, candidates, t, count) ==
    IF candidates = <<>>
    THEN [phone_numbers |-> phone_numbers, count |-> count]
    ELSE LET number == Strip(Head(candidates))
         IN  IF number # <<>> /\ ~HasNumber(phone_numbers, number)
             THEN Scan(Append(phone_numbers,
                              NewRecord(Len(phone_numbers) + 1, number, t)),
                       Tail(candidates), t, count + 1)
             ELSE Scan(phone_numbers, Tail(candidates), t, count)

\* Faulty variant: a missing call_sid is compared as the empty string
FirstWithSidNoneAsEmpty(phone_numbers, call_sid) ==
    LET hits == {i \in 1..Len(phone_numbers) :
                    \/ phone_numbers[i].call_sid = Some(call_sid)
                    \/ phone_numbers[i].call_sid = None /\ call_sid = ""}
    IN  IF hits = {} THEN 0 ELSE CHOOSE i \in hits : \A j \in hits : i <= j

\* update_call_status_by_sid: the position of the first record with the
\* call_sid (0 when there is none), and the list after the loop.
FirstWithSid(phone_numbers, call_sid) ==
    LET hits == {i \in 1..Len(phone_numbers) :
                    phone_numbers[i].call_sid = Some(call_sid)}
    IN  IF hits = {} THEN 0 ELSE CHOOSE i \in hits : \A j \in hits : i <= j

\* Faulty variant: the call_sid is dropped when the status is set
SetStatusDropsSid(phone, status, duration) ==
    [phone EXCEPT !.status = status, !.duration = duration, !.call_sid = None]

\* Faulty variant: the duration is added to the stored one instead of replacing it
SetStatusAddsDuration(phone, status, duration) ==
    [phone EXCEPT !.status = status, !.duration = @ + duration]

SetStatus(phone, status, duration) ==
    [phone EXCEPT !.status = status, !.duration = duration]

UpdateBySid(phone_numbers, call_sid, status, duration) ==
    LET i == FirstWithSid(phone_numbers, call_sid)
    IN  IF i = 0 THEN phone_numbers
        ELSE [phone_numbers EXCEPT ![i] = SetStatus(@, status, duration)]

\* The two outcomes of a dispatch for one record.
Dialed(phone, sid, t) ==
    [phone EXCEPT !.call_sid = Some(sid), !.status = "calling",
                  !.called_at = Some(t)]

\* Faulty variant: the error text is not recorded
DialFailedNoNotes(phone, error) ==
    [phone EXCEPT !.status = "failed"]

DialFailed(phone, error) ==
    [phone EXCEPT !.status = "failed", !.notes = error]

----------------------------------------------------------------------------
(* Initial state: init_json_files has written [] and the Twilio client is   *)
(* configured or not for the whole run.                                     *)

Idle == [pc |-> "idle"]

Init ==
    /\ store = <<>>
    /\ twilio_client \in BOOLEAN
    /\ upload = Idle
    /\ nextSid = 0
    /\ live = {}
    /\ last = [op |-> "start"]

----------------------------------------------------------------------------
(* The handlers, as functions of the list they load and of their request:   *)
(* each gives the list it saves (phone_numbers), its response (last) and,   *)
(* for the dispatching handlers, the number of calls the provider has       *)
(* accepted afterwards (calls).                                             *)

\* upload_numbers from the loaded list on, for the candidates of its request.
upload_numbers(phone_numbers, candidates, t) ==
    LET r == Scan(phone_numbers, candidates, t, 0)
    IN  [phone_numbers |-> r.phone_numbers,
         last |-> [op |-> "upload_numbers", pc |-> "done", success |-> TRUE,
                   count |-> r.count]]

IndexOfNumber(phone_numbers, number) ==
    CHOOSE i \in 1..Len(phone_numbers) :
        /\ phone_numbers[i].number = number
        /\ \A j \in 1..(i - 1) : phone_numbers[j].number # number

\* Faulty variant: the record is appended without the lookup
WithNumberAlwaysAppends(phone_numbers, number, t) ==
    Append(phone_numbers, NewRecord(MaxId(phone_numbers) + 1, number, t))

\* The list after `if not phone:`: the record is appended when the number is
\* not in the list, with id max + 1.
WithNumber(phone_numbers, number, t) ==
    IF HasNumber(phone_numbers, number) THEN phone_numbers
    ELSE Append(phone_numbers, NewRecord(MaxId(phone_numbers) + 1, number, t))

\* What calls.create does: "accept" (it returns a call) or the error raised.
Outcomes == {"accept"} \cup ProviderErrors

\* The cross mark that starts ai_call's failure messages.
FailureMark == "(x) "

AiCallFailure(message) ==
    [op |-> "ai_call", success |-> FALSE, message |-> FailureMark \o message]

\* ai_call for a command, when calls.create does `outcome` if it is reached
\* and the provider has accepted `calls` calls before.
ai_call(loaded, command, configured, outcome, calls) ==
    LET phone_match == phone_match_of[command] IN
    IF phone_match = None
    THEN [phone_numbers |-> loaded, calls |-> calls,
          last |-> AiCallFailure("Could not find phone number")]
    ELSE
    LET number == ExtractNumber(phone_match[1]) IN
    IF ~configured
    THEN [phone_numbers |-> loaded, calls |-> calls,
          last |-> AiCallFailure("Twilio not configured")]
    ELSE
    LET phone_numbers == WithNumber(loaded, number, TimeAfter(calls))
        i == IndexOfNumber(phone_numbers, number)
    IN  IF outcome = "accept"
        THEN [phone_numbers |->
                  [phone_numbers EXCEPT
                      ![i] = Dialed(@, SidOf(calls + 1), TimeAfter(calls + 1))],
              calls |-> calls + 1,
              last |-> [op |-> "ai_call", success |-> TRUE,
                        call_sid |-> SidOf(calls + 1)]]
        ELSE [phone_numbers |->
                  [phone_numbers EXCEPT ![i] = DialFailed(@, outcome)],
              calls |-> calls,
              last |-> AiCallFailure(outcome)]

\* Faulty variant: records in calling are selected too
PendingOrCalling(phone_numbers) ==
    {i \in 1..Len(phone_numbers) :
        phone_numbers[i].status \in {"pending", "calling"}}

\* pending = [p for p in phone_numbers if p.get('status') == 'pending'],
\* as positions in the list.
PendingOf(phone_numbers) ==
    {i \in 1..Len(phone_numbers) : phone_numbers[i].status = "pending"}

\* Faulty variant: the first error ends the loop
RECURSIVE BulkLoopStopsAtError(_, _, _, _, _)
BulkLoopStopsAtError(phone_numbers, i, pending, outcomes, calls) ==
    IF i > Len(phone_numbers)
    THEN [phone_numbers |-> phone_numbers, calls |-> calls]
    ELSE IF i \notin pending
    THEN BulkLoopStopsAtError(phone_numbers, i + 1, pending, outcomes, calls)
    ELSE IF outcomes[i] = "accept"
    THEN BulkLoopStopsAtError(
             [phone_numbers EXCEPT
                 ![i] = Dialed(@, SidOf(calls + 1), TimeAfter(calls + 1))],
             i + 1, pending, outcomes, calls + 1)
    ELSE [phone_numbers |->
              [phone_numbers EXCEPT ![i] = DialFailed(@, outcomes[i])],
          calls |-> calls]

\* The loop `for phone in pending`, in list order from position i on:
\* outcomes[i] is what calls.create does for record i.
RECURSIVE BulkLoop(_, _, _, _, _)
BulkLoop(phone_numbers, i, pending, outcomes, calls) ==
    IF i > Len(phone_numbers)
    THEN [phone_numbers |-> phone_numbers, calls |-> calls]
    ELSE IF i \notin pending
    THEN BulkLoop(phone_numbers, i + 1, pending, outcomes, calls)
    ELSE IF outcomes[i] = "accept"
    THEN BulkLoop([phone_numbers EXCEPT
                      ![i] = Dialed(@, SidOf(calls + 1), TimeAfter(calls + 1))],
                  i + 1, pending, outcomes, calls + 1)
    ELSE BulkLoop([phone_numbers EXCEPT ![i] = DialFailed(@, outcomes[i])],
                  i + 1, pending, outcomes, calls)

\* bulk_call, for the outcomes of its calls to the provider.
bulk_call(loaded, configured, outcomes, calls) ==
    IF ~configured
    THEN [phone_numbers |-> loaded, calls |-> calls,
          last |-> [op |-> "bulk_call", success |-> FALSE,
                    message |-> FailureMark \o "Twilio not configured"]]
    ELSE
    LET pending == PendingOf(loaded) IN
    IF pending = {}
    THEN [phone_numbers |-> loaded, calls |-> calls,
          last |-> [op |-> "bulk_call", success |-> FALSE,
                    message |-> "No pending numbers"]]
    ELSE
    LET r == BulkLoop(loaded, 1, pending, outcomes, calls)
    IN  [phone_numbers |-> r.phone_numbers, calls |-> r.calls,
         last |-> [op |-> "bulk_call", success |-> TRUE,
                   count |-> Cardinality(pending)]]

\* call_status_webhook: int(call_duration) raising ends in the handler's
\* except branch, which answers too.
call_status_webhook(loaded, call_sid, call_status, call_duration) ==
    LET duration == duration_of[call_duration] IN
    IF duration = None
    THEN [phone_numbers |-> loaded,
          last |-> [op |-> "call_status", status |-> "error"]]
    ELSE [phone_numbers |->
              UpdateBySid(loaded, call_sid, call_status, duration[1]),
          last |-> [op |-> "call_status", status |-> "ok",
                    updated |-> FirstWithSid(loaded, call_sid) # 0]]

FirstWithId(phone_numbers, phone_id) ==
    LET hits == {i \in 1..Len(phone_numbers) : phone_numbers[i].id = phone_id}
    IN  IF hits = {} THEN 0 ELSE CHOOSE i \in hits : \A j \in hits : i <= j

simulate_call_complete(loaded, phone_id, new_status, new_duration) ==
    LET i == FirstWithId(loaded, phone_id)
    IN  IF i = 0
        THEN [phone_numbers |-> loaded,
              last |-> [op |-> "simulate_call_complete", success |-> FALSE]]
        ELSE [phone_numbers |->
                  [loaded EXCEPT ![i] = SetStatus(@, new_status, new_duration)],
              last |-> [op |-> "simulate_call_complete", success |-> TRUE]]

----------------------------------------------------------------------------
(* The steps *)

\* upload_numbers with a file: load_phone_numbers(), then the coroutine
\* suspends at `await file.read()`.
UploadFileBegin ==
    /\ upload.pc = "idle"
    /\ upload' = [pc |-> "await", phone_numbers |-> load_phone_numbers]
    /\ last' = [op |-> "upload_numbers", pc |-> "await"]
    /\ UNCHANGED <<store, twilio_client, nextSid, live>>

\* The coroutine resumes with the contents read: it scans the rows into the
\* list it loaded before the await and saves that list.
UploadFileResume(contents) ==
    /\ upload.pc = "await"
    /\ \E r \in {upload_numbers(upload.phone_numbers,
                               candidates_of_file[contents], utcnow)} :
           /\ save_phone_numbers(r.phone_numbers)
           /\ last' = r.last
    /\ upload' = Idle
    /\ UNCHANGED <<twilio_client, nextSid, live>>

\* With a file small enough to be held in memory, `await file.read()` returns
\* without suspending and the handler runs from its load to its save in one
\* step.
UploadFile(contents) ==
    /\ \E r \in {upload_numbers(load_phone_numbers,
                               candidates_of_file[contents], utcnow)} :
           /\ save_phone_numbers(r.phone_numbers)
           /\ last' = r.last
    /\ UNCHANGED <<twilio_client, upload, nextSid, live>>

\* With numbers_text and no file: no await between the load and the save.
UploadText(numbers_text) ==
    /\ numbers_text # <<>>
    /\ \E r \in {upload_numbers(load_phone_numbers,
                               candidates_of_text[numbers_text], utcnow)} :
           /\ save_phone_numbers(r.phone_numbers)
           /\ last' = r.last
    /\ UNCHANGED <<twilio_client, upload, nextSid, live>>

\* With neither: the loaded list is saved as it is.
UploadNothing ==
    /\ \E r \in {upload_numbers(load_phone_numbers, <<>>, utcnow)} :
           /\ save_phone_numbers(r.phone_numbers)
           /\ last' = r.last
    /\ UNCHANGED <<twilio_client, upload, nextSid, live>>

NewSids(calls) == {SidOf(n) : n \in (nextSid + 1)..calls}

AiCall(command) ==
    \E outcome \in Outcomes :
        \E r \in {ai_call(load_phone_numbers, command, twilio_client, outcome,
                         nextSid)} :
            /\ r.calls <= MaxCalls
            /\ save_phone_numbers(r.phone_numbers)
            /\ nextSid' = r.calls
            /\ live' = live \cup NewSids(r.calls)
            /\ last' = r.last
            /\ UNCHANGED <<twilio_client, upload>>

BulkCall ==
    \E outcomes \in [PendingOf(load_phone_numbers) -> Outcomes] :
        \E r \in {bulk_call(load_phone_numbers, twilio_client, outcomes,
                           nextSid)} :
            /\ r.calls <= MaxCalls
            /\ save_phone_numbers(r.phone_numbers)
            /\ nextSid' = r.calls
            /\ live' = live \cup NewSids(r.calls)
            /\ last' = r.last
            /\ UNCHANGED <<twilio_client, upload>>

\* The form is read before the store is loaded, so the handler is one step.
CallStatusWebhook(call_sid, call_status, call_duration) ==
    \E r \in {call_status_webhook(load_phone_numbers, call_sid, call_status,
                                 call_duration)} :
        /\ save_phone_numbers(r.phone_numbers)
        /\ last' = r.last
        /\ UNCHANGED <<twilio_client, upload, nextSid, live>>

SimulateCallComplete(phone_id, new_status, new_duration) ==
    \E r \in {simulate_call_complete(load_phone_numbers, phone_id, new_status,
                                    new_duration)} :
        /\ save_phone_numbers(r.phone_numbers)
        /\ last' = r.last
        /\ UNCHANGED <<twilio_client, upload, nextSid, live>>

ClearAll ==
    /\ save_phone_numbers(<<>>)
    /\ live' = {}
    /\ last' = [op |-> "clear_all", success |-> TRUE]
    /\ UNCHANGED <<twilio_client, upload, nextSid>>

Webhook ==
    \E call_sid \in CallSids, call_status \in CallStatuses,
       call_duration \in CallDurations :
       CallStatusWebhook(call_sid, call_status, call_duration)

Simulate ==
    \E phone_id \in 1..(Len(store) + 1), new_status \in SimulatedStatuses,
       new_duration \in SimulatedDurations :
       SimulateCallComplete(phone_id, new_status, new_duration)

\* Every handler, each running from its load to its save without suspending.
Next ==
    \/ \E contents \in Files : UploadFile(contents)
    \/ \E numbers_text \in Texts : UploadText(numbers_text)
    \/ UploadNothing
    \/ \E command \in Commands : AiCall(command)
    \/ BulkCall
    \/ Webhook
    \/ Simulate
    \/ ClearAll

Spec == Init /\ [][Next]_vars

\* The handlers that insert records and dispatch, with upload_numbers
\* suspending at its await while other requests are handled.
NextConcurrent ==
    \/ UploadFileBegin
    \/ \E contents \in Files : UploadFileResume(contents)
    \/ \E numbers_text \in Texts : UploadText(numbers_text)
    \/ \E command \in Commands : AiCall(command)
    \/ BulkCall
    \/ ClearAll

SpecConcurrent == Init /\ [][NextConcurrent]_vars

\* /api/call_status takes the CallStatus of any client that posts to it and
\* update_call_status_by_sid stores it as it comes: besides the provider's
\* statuses, a status that is a state of the dispatcher.
AnyStatuses == CallStatuses \cup {"pending"}

WebhookAnyStatus ==
    \E call_sid \in CallSids, call_status \in AnyStatuses,
       call_duration \in CallDurations :
       CallStatusWebhook(call_sid, call_status, call_duration)

NextAnyStatus ==
    \/ \E contents \in Files : UploadFile(contents)
    \/ \E numbers_text \in Texts : UploadText(numbers_text)
    \/ UploadNothing
    \/ \E command \in Commands : AiCall(command)
    \/ BulkCall
    \/ WebhookAnyStatus
    \/ Simulate
    \/ ClearAll

SpecAnyStatus == Init /\ [][NextAnyStatus]_vars

----------------------------------------------------------------------------
(* The handlers when the write of the file can fail.  save_phone_numbers     *)
(* catches every exception, prints it and returns: open(..., 'w') raising    *)
(* leaves the file as it was, json.dump raising after open has truncated the *)
(* file leaves it empty or cut short, which load_phone_numbers reads as [].  *)

SaveFaults == {"none", "open", "write"}

\* What load_phone_numbers reads after save_phone_numbers(data).
Saved(data, fault) ==
    IF fault = "none" THEN data
    ELSE IF fault = "open" THEN store
    ELSE <<>>

UploadTextSaving(numbers_text, fault) ==
    /\ \E r \in {upload_numbers(load_phone_numbers,
                               candidates_of_text[numbers_text], utcnow)} :
           /\ store' = Saved(r.phone_numbers, fault)
           /\ last' = r.last
    /\ UNCHANGED <<twilio_client, upload, nextSid, live>>

AiCallSaving(command, outcome, fault) ==
    \E r \in {ai_call(load_phone_numbers, command, twilio_client, outcome,
                     nextSid)} :
        /\ r.calls <= MaxCalls
        /\ store' = IF phone_match_of[command] # None /\ twilio_client
                    THEN Saved(r.phone_numbers, fault)
                    ELSE store
        /\ nextSid' = r.calls
        /\ live' = live \cup NewSids(r.calls)
        /\ last' = r.last
        /\ UNCHANGED <<twilio_client, upload>>

BulkCallSaving(outcomes, fault) ==
    \E r \in {bulk_call(load_phone_numbers, twilio_client, outcomes,
                       nextSid)} :
        /\ r.calls <= MaxCalls
        /\ store' = IF r.last.success THEN Saved(r.phone_numbers, fault)
                    ELSE store
        /\ nextSid' = r.calls
        /\ live' = live \cup NewSids(r.calls)
        /\ last' = r.last
        /\ UNCHANGED <<twilio_client, upload>>

\* update_call_status_by_sid saves only if it has updated a record.
CallStatusWebhookSaving(call_sid, call_status, call_duration, fault) ==
    \E r \in {call_status_webhook(load_phone_numbers, call_sid, call_status,
                                 call_duration)} :
        /\ store' = IF r.last.status = "ok" /\ r.last.updated
                    THEN Saved(r.phone_numbers, fault)
                    ELSE store
        /\ last' = r.last
        /\ UNCHANGED <<twilio_client, upload, nextSid, live>>

ClearAllSaving(fault) ==
    /\ store' = Saved(<<>>, fault)
    /\ live' = IF fault = "open" THEN live ELSE {}
    /\ last' = [op |-> "clear_all", success |-> TRUE]
    /\ UNCHANGED <<twilio_client, upload, nextSid>>

NextSaveFaults ==
    \E fault \in SaveFaults :
        \/ \E numbers_text \in Texts : UploadTextSaving(numbers_text, fault)
        \/ \E command \in Commands, outcome \in Outcomes :
              AiCallSaving(command, outcome, fault)
        \/ \E outcomes \in [PendingOf(load_phone_numbers) -> Outcomes] :
              BulkCallSaving(outcomes, fault)
        \/ \E call_sid \in CallSids, call_status \in CallStatuses,
              call_duration \in CallDurations :
              CallStatusWebhookSaving(call_sid, call_status, call_duration,
                                      fault)
        \/ ClearAllSaving(fault)

SpecSaveFaults == Init /\ [][NextSaveFaults]_vars

----------------------------------------------------------------------------
(* The reports: call_stats and export_calls read the store and answer.      *)

\* Faulty variant: the first record is not counted
RECURSIVE CountInSkipsFirst(_, _)
CountInSkipsFirst(phone_numbers, statuses) ==
    IF Len(phone_numbers) <= 1 THEN 0
    ELSE (IF phone_numbers[Len(phone_numbers)].status \in statuses
          THEN 1 ELSE 0)
         + CountInSkipsFirst(SubSeq(phone_numbers, 1, Len(phone_numbers) - 1),
                             statuses)

\* len([p for p in phone_numbers if p.get('status') in statuses])
RECURSIVE CountIn(_, _)
CountIn(phone_numbers, statuses) ==
    IF phone_numbers = <<>> THEN 0
    ELSE (IF Head(phone_numbers).status \in statuses THEN 1 ELSE 0)
         + CountIn(Tail(phone_numbers), statuses)

\* f"{(completed/total*100):.1f}%" if total > 0 else "0%": the percentage
\* rounded to one decimal.
SuccessRate(completed, total) ==
    IF total > 0
    THEN LET tenths == (2000 * completed + total) \div (2 * total)
         IN  ToString(tenths \div 10) \o "." \o ToString(tenths % 10) \o "%"
    ELSE "0%"

\* Faulty variant: records in calling are counted as pending too
call_stats_pending_or_calling(phone_numbers) ==
    [op |-> "call_stats",
     total |-> Len(phone_numbers),
     completed |-> CountIn(phone_numbers, {"completed"}),
     failed |-> CountIn(phone_numbers, {"failed", "busy", "no-answer"}),
     pending |-> CountIn(phone_numbers, {"pending", "calling"}),
     calling |-> CountIn(phone_numbers, {"calling"}),
     success_rate |-> SuccessRate(CountIn(phone_numbers, {"completed"}),
                                  Len(phone_numbers))]

\* The response of call_stats for the list it loads.
call_stats(phone_numbers) ==
    [op |-> "call_stats",
     total |-> Len(phone_numbers),
     completed |-> CountIn(phone_numbers, {"completed"}),
     failed |-> CountIn(phone_numbers, {"failed", "busy", "no-answer"}),
     pending |-> CountIn(phone_numbers, {"pending"}),
     calling |-> CountIn(phone_numbers, {"calling"}),
     success_rate |-> SuccessRate(CountIn(phone_numbers, {"completed"}),
                                  Len(phone_numbers))]

CallStats ==
    /\ last' = call_stats(load_phone_numbers)
    /\ UNCHANGED <<store, twilio_client, upload, nextSid, live>>

Header == <<"Phone Number", "Status", "Duration", "Called At">>

\* The default of call.get('called_at', 'N/A').
Placeholder == "N/A"

\* The string datetime.isoformat() gave for the reading t.
IsoFormat(t) == "T" \o ToString(t)

\* call.get('called_at', 'N/A'): the value under the key when the record has
\* the key, None included; the default only when it has not.
CalledAtOf(call) ==
    IF "called_at" \notin DOMAIN call THEN Some(Placeholder)
    ELSE IF call.called_at = None THEN None
    ELSE Some(IsoFormat(call.called_at[1]))

\* csv.writer writes None as the empty field and any other value as str().
CsvField(value) == IF value = None THEN "" ELSE value[1]

ExportRow(call) ==
    <<call.number, call.status, ToString(call.duration),
      CsvField(CalledAtOf(call))>>

\* The response of export_calls: the rows written, the header first.
export_calls(phone_numbers) ==
    [op |-> "export_calls", success |-> TRUE,
     csv |-> <<Header>> \o [i \in 1..Len(phone_numbers) |->
                                ExportRow(phone_numbers[i])]]

ExportCalls ==
    /\ last' = export_calls(load_phone_numbers)
    /\ UNCHANGED <<store, twilio_client, upload, nextSid, live>>

\* The handlers that change what the reports show, and the reports.
NextReports ==
    \/ \E numbers_text \in Texts : UploadText(numbers_text)
    \/ \E command \in Commands : AiCall(command)
    \/ BulkCall
    \/ Webhook
    \/ Simulate
    \/ ClearAll
    \/ CallStats
    \/ ExportCalls

SpecReports == Init /\ [][NextReports]_vars

----------------------------------------------------------------------------
(* Properties *)

Records(phone_numbers) == {phone_numbers[i] : i \in 1..Len(phone_numbers)}

RecordsWithSid(phone_numbers, sid) ==
    {i \in 1..Len(phone_numbers) : phone_numbers[i].call_sid = Some(sid)}

PendingRecords(phone_numbers) ==
    {i \in 1..Len(phone_numbers) : phone_numbers[i].status = "pending"}

\* The positions present before and after a step.  A step of a handler
\* appends records or replaces the whole list, so a record keeps its position
\* for as long as it is in the store.
Kept == {i \in 1..Len(store) : i <= Len(store')}

UploadSaves == upload.pc = "await" /\ upload'.pc = "idle"

\* C1: every read-modify-write of the store is serialized against the other
\* writers, so that no committed insert or update is lost: when upload_numbers
\* saves after its awaited file read, every record stored at that moment is
\* still stored, unchanged, after the save.
C1_Serialized ==
    [][UploadSaves =>
          \A i \in 1..Len(store) : i \in Kept /\ store'[i] = store[i]]_vars

\* C2: in every state reachable by interleaving uploads (by file, suspended at
\* the await, and by text) with ai_call's creation of records, no two records
\* of the store have the same number.
C2_NumbersUnique ==
    \A i, j \in 1..Len(store) :
        i # j => store[i].number # store[j].number

\* An upload that was suspended while a dispatch was saved has completed and
\* inserted both of its numbers over what the dispatch had saved.
C2_Witness ==
    /\ last.op = "upload_numbers" /\ last.pc = "done" /\ last.count = 2
    /\ Len(store) = 2
    /\ live # {}

Terminal == {"completed", "failed", "busy", "no-answer"}

Edge(from, to) ==
    \/ from = "pending" /\ to \in {"calling", "failed"}
    \/ from = "calling" /\ to \in Terminal

\* C3: every change of a record's status by a handler follows an edge of the
\* state machine: pending to calling or failed, calling to a terminal status.
C3_StateMachine ==
    [][\A i \in Kept :
          store'[i].status # store[i].status
              => Edge(store[i].status, store'[i].status)]_vars

\* C4: a call_sid once set never changes, and no two records share one.
C4_SidImmutableUnique ==
    /\ [](\A i, j \in 1..Len(store) :
             (i # j /\ store[i].call_sid # None)
                 => store[i].call_sid # store[j].call_sid)
    /\ [][\A i \in Kept :
             store[i].call_sid # None
                 => store'[i].call_sid = store[i].call_sid]_vars

\* C5: a status event for a call sid that a dispatch returned, with no
\* clear_all since, sets the status and the duration of the record with that
\* call_sid to the event's.
C5_EventApplied ==
    [][\A call_sid \in live, call_status \in CallStatuses,
          call_duration \in CallDurations :
          (/\ last'.op = "call_status"
           /\ duration_of[call_duration] # None
           /\ CallStatusWebhook(call_sid, call_status, call_duration))
              => \E i \in 1..Len(store') :
                    /\ store'[i].call_sid = Some(call_sid)
                    /\ store'[i].status = call_status
                    /\ store'[i].duration = duration_of[call_duration][1]]_vars

\* C6: a status event whose identifier is no record's call_sid, the empty
\* identifier among them, leaves the store as it is and is answered, with
\* status ok when its duration is a number.
C6_UnknownSidIgnored ==
    \A call_sid \in CallSids, call_status \in CallStatuses,
       call_duration \in CallDurations :
        RecordsWithSid(store, call_sid) = {}
            => LET r == call_status_webhook(store, call_sid, call_status,
                                            call_duration)
               IN  /\ r.phone_numbers = store
                   /\ r.last.status \in {"ok", "error"}
                   /\ duration_of[call_duration] # None
                          => r.last.status = "ok" /\ ~r.last.updated

\* A status event with an identifier of no record was answered without an
\* update while records with and without call_sid are stored.
C6_Witness ==
    /\ last.op = "call_status" /\ last.status = "ok" /\ ~last.updated
    /\ \E p \in Records(store) : p.call_sid = None
    /\ \E p \in Records(store) : p.call_sid # None

EventDurations ==
    {duration_of[d][1] : d \in {c \in CallDurations : duration_of[c] # None}}

\* C7: for every store, identifier, status and duration, applying a status
\* event twice gives the store that applying it once gives.
C7_Idempotent ==
    \A call_sid \in CallSids, call_status \in CallStatuses \cup Terminal,
       duration \in EventDurations :
        LET once == UpdateBySid(store, call_sid, call_status, duration)
        IN  UpdateBySid(once, call_sid, call_status, duration) = once

\* A status event has updated a record to completed with its duration.
C7_Witness ==
    /\ last.op = "call_status" /\ last.status = "ok" /\ last.updated
    /\ \E p \in Records(store) :
          p.call_sid # None /\ p.status = "completed" /\ p.duration # 0

\* C8: when ai_call reaches the provider, then if the call is accepted the
\* record of the number has status calling and the call_sid returned to the
\* caller, and if it is rejected the record has status failed and non-empty
\* notes and the caller is told of the failure.
C8_AiCallOutcome ==
    \A command \in Commands, outcome \in Outcomes :
        (phone_match_of[command] # None /\ twilio_client)
            => LET r == ai_call(store, command, twilio_client, outcome, nextSid)
                   number == ExtractNumber(phone_match_of[command][1])
                   hits == {i \in 1..Len(r.phone_numbers) :
                               r.phone_numbers[i].number = number}
               IN  /\ Cardinality(hits) = 1
                   /\ r.last.op = "ai_call"
                   /\ r.last.success = (outcome = "accept")
                   /\ \A i \in hits :
                         LET phone == r.phone_numbers[i]
                         IN  IF outcome = "accept"
                             THEN /\ phone.status = "calling"
                                  /\ r.last.call_sid # ""
                                  /\ phone.call_sid = Some(r.last.call_sid)
                             ELSE /\ phone.status = "failed"
                                  /\ phone.notes # ""
                                  /\ r.last.message = FailureMark \o phone.notes

\* ai_call was rejected for one number after it was accepted for another.
C8_Witness ==
    /\ last.op = "ai_call" /\ ~last.success
    /\ last.message \in {FailureMark \o error : error \in ProviderErrors}
    /\ \E p \in Records(store) : p.status = "failed" /\ p.notes # ""
    /\ \E p \in Records(store) : p.status = "calling" /\ p.call_sid # None

\* C9: bulk_call attempts exactly the records that are pending when it is
\* called, reports their number, and leaves every other record as it is,
\* whatever the provider would answer for each record of the store.
C9_BulkFrame ==
    \A outcomes \in [1..Len(store) -> Outcomes] :
        (twilio_client /\ PendingRecords(store) # {})
            => LET r == bulk_call(store, twilio_client, outcomes, nextSid)
               IN  /\ Len(r.phone_numbers) = Len(store)
                   /\ r.last.op = "bulk_call" /\ r.last.success
                   /\ r.last.count = Cardinality(PendingRecords(store))
                   /\ \A i \in 1..Len(store) :
                         IF i \in PendingRecords(store)
                         THEN r.phone_numbers[i].status \in {"calling", "failed"}
                         ELSE r.phone_numbers[i] = store[i]

\* bulk_call has attempted the one pending record of a store that held a
\* record in calling.
C9_Witness ==
    /\ last.op = "bulk_call" /\ last.success /\ last.count = 1
    /\ Len(store) = 2
    /\ \A p \in Records(store) : p.status = "calling"

\* C10: in bulk_call, whatever the provider answers for each pending record,
\* every record whose call was accepted is calling with its own call_sid,
\* every record whose call was rejected is failed with the error in notes,
\* and none is left pending.
C10_BulkIndependent ==
    \A outcomes \in [PendingRecords(store) -> Outcomes] :
        (twilio_client /\ PendingRecords(store) # {})
            => LET r == bulk_call(store, twilio_client, outcomes, nextSid)
               IN  \A i \in PendingRecords(store) :
                      LET phone == r.phone_numbers[i]
                      IN  /\ phone.status # "pending"
                          /\ IF outcomes[i] = "accept"
                             THEN /\ phone.status = "calling"
                                  /\ phone.call_sid # None
                                  /\ phone.call_sid[1] \in NewSids(r.calls)
                                  /\ RecordsWithSid(r.phone_numbers,
                                                    phone.call_sid[1]) = {i}
                             ELSE /\ phone.status = "failed"
                                  /\ phone.notes = outcomes[i]
                                  /\ phone.notes # ""
                                  /\ phone.call_sid = store[i].call_sid

\* bulk_call had its first call rejected and its second accepted.
C10_Witness ==
    /\ last.op = "bulk_call" /\ last.success /\ last.count = 2
    /\ Len(store) = 2
    /\ store[1].status = "failed" /\ store[1].notes # ""
    /\ store[2].status = "calling" /\ store[2].call_sid # None

\* The candidates of a request that ingest accepts, as positions: trimmed,
\* not empty, not in the list and not earlier in the same request.
Trimmed(candidates) == [k \in 1..Len(candidates) |-> Strip(candidates[k])]

Accepted(phone_numbers, entries) ==
    {k \in 1..Len(entries) :
        /\ entries[k] # <<>>
        /\ \A p \in Records(phone_numbers) : p.number # entries[k]
        /\ \A j \in 1..(k - 1) : entries[j] # entries[k]}

FirstAt(entries, number) ==
    CHOOSE k \in 1..Len(entries) :
        entries[k] = number /\ \A j \in 1..(k - 1) : entries[j] # number

Ingests(phone_numbers, candidates) ==
    LET entries == Trimmed(candidates)
        accepted == Accepted(phone_numbers, entries)
        r == upload_numbers(phone_numbers, candidates, utcnow)
        new == (Len(phone_numbers) + 1)..Len(r.phone_numbers)
    IN  /\ r.last.success
        /\ r.last.count = Cardinality(accepted)
        /\ Len(r.phone_numbers) = Len(phone_numbers) + Cardinality(accepted)
        /\ SubSeq(r.phone_numbers, 1, Len(phone_numbers)) = phone_numbers
        /\ {r.phone_numbers[i].number : i \in new}
               = {entries[k] : k \in accepted}
        /\ \A i \in new :
              /\ r.phone_numbers[i].status = "pending"
              /\ r.phone_numbers[i].duration = 0
              /\ r.phone_numbers[i].call_sid = None
        /\ \A i, j \in new :
              i < j => FirstAt(entries, r.phone_numbers[i].number)
                           < FirstAt(entries, r.phone_numbers[j].number)

\* C11: upload_numbers, for every store and every request by text or by
\* file, trims each entry, skips the empty ones and those already stored or
\* inserted earlier in the request, appends each remaining number in order as
\* a pending record with duration 0 and no call_sid, and returns the number of
\* records it inserted.
C11_IngestInserts ==
    /\ \A numbers_text \in Texts :
          Ingests(store, candidates_of_text[numbers_text])
    /\ \A contents \in Files :
          Ingests(store, candidates_of_file[contents])

\* The upload of a number twice and a padded second number into the empty
\* store has inserted two records.
C11_Witness ==
    /\ last.op = "upload_numbers" /\ last.pc = "done" /\ last.count = 2
    /\ Len(store) = 2 /\ live = {}
    /\ store[1].number = N1 /\ store[2].number = N2
    /\ \A p \in Records(store) : p.status = "pending" /\ p.call_sid = None

\* C12: the ids of the records of the store are pairwise distinct and
\* increase in the order the records were created in, which is their order
\* in the list, whether upload_numbers (len + 1) or ai_call (max + 1)
\* assigned them: each id assigned is greater than every id assigned before.
C12_IdsIncreasing ==
    \A i, j \in 1..Len(store) : i < j => store[i].id < store[j].id

\* ai_call has created the second record of a store whose first record is
\* still pending.
C12_Witness ==
    /\ last.op = "ai_call" /\ last.success
    /\ Len(store) = 2
    /\ store[1].id = 1 /\ store[1].status = "pending"
    /\ store[2].id = 2 /\ store[2].call_sid = Some(last.call_sid)

\* The records of a list agree with the ids of an earlier list: none has the
\* id of an earlier record with another number.
IdsNotReused(earlier, later) ==
    \A p \in Records(earlier), q \in Records(later) :
        q.id = p.id => q.number = p.number

\* C13: an id once assigned to a record is never assigned to a record of
\* another number afterwards, clear_all or not: after every step, whatever
\* upload_numbers or ai_call would store next gives none of its records the
\* id that a record of another number had before the step.
C13_IdNeverReused ==
    [][/\ \A numbers_text \in Texts :
             IdsNotReused(store,
                 upload_numbers(store', candidates_of_text[numbers_text],
                                TimeAfter(nextSid')).phone_numbers)
       /\ \A command \in Commands, outcome \in Outcomes :
             IdsNotReused(store,
                 ai_call(store', command, twilio_client', outcome,
                         nextSid').phone_numbers)]_vars

\* C14: in every reachable state a pending record has no call_sid and a
\* record in calling has a non-empty one.
C14_SidMatchesStatus ==
    \A p \in Records(store) :
        /\ p.status = "pending" => p.call_sid = None
        /\ p.status = "calling" => p.call_sid # None /\ p.call_sid # Some("")

\* C15: called_at is set exactly once, in the step in which the record
\* leaves pending: it is absent on every pending record, present on every
\* other record, and once present it never changes.
C15_CalledAtOnce ==
    /\ [](\A p \in Records(store) :
             (p.status = "pending") <=> (p.called_at = None))
    /\ [][\A i \in Kept :
             store[i].called_at # None
                 => store'[i].called_at = store[i].called_at]_vars

\* C16: a record that has failed through a provider error (its notes hold
\* the error) is never modified by a later status event, whatever
\* identifier the event carries.
C16_DispatchFailureFinal ==
    [][last'.op = "call_status"
          => \A i \in Kept :
                (store[i].status = "failed" /\ store[i].notes # "")
                    => store'[i] = store[i]]_vars

\* C17: whenever a status event can arrive for an identifier the provider
\* has issued, with no clear_all since, a record carries that identifier:
\* every identifier issued since the last clear_all is some record's call_sid
\* in every state between two handlers.
C17_SidPersisted ==
    \A sid \in live : RecordsWithSid(store, sid) # {}

\* C18: a record that has left pending is never pending again.
C18_NeverBackToPending ==
    [][\A i \in Kept :
          (store[i].status # "pending" /\ store'[i].number = store[i].number)
              => store'[i].status # "pending"]_vars

FailedWrites == SaveFaults \ {"none"}

\* The response of the step reports a failure, and the file holds the list
\* as it was or the whole list the handler meant to write.
FailureReported(intended) ==
    /\ IF last'.op = "call_status" THEN last'.status = "error"
       ELSE ~last'.success
    /\ store' \in {store, intended}

\* C19: when the write of the file fails in upload_numbers, ai_call,
\* bulk_call, call_status_webhook or clear_all, the handler reports a failure
\* to its caller and the file holds either the whole change or none of it.
C19_SaveFailureReported ==
    [][\A fault \in FailedWrites :
          /\ \A numbers_text \in Texts :
                UploadTextSaving(numbers_text, fault)
                    => FailureReported(upload_numbers(
                           store, candidates_of_text[numbers_text],
                           utcnow).phone_numbers)
          /\ \A command \in Commands, outcome \in Outcomes :
                (/\ phone_match_of[command] # None /\ twilio_client
                 /\ AiCallSaving(command, outcome, fault))
                    => FailureReported(ai_call(store, command, twilio_client,
                                               outcome, nextSid).phone_numbers)
          /\ \A outcomes \in [PendingOf(store) -> Outcomes] :
                (/\ twilio_client /\ PendingOf(store) # {}
                 /\ BulkCallSaving(outcomes, fault))
                    => FailureReported(bulk_call(store, twilio_client, outcomes,
                                                 nextSid).phone_numbers)
          /\ \A call_sid \in CallSids, call_status \in CallStatuses,
                call_duration \in CallDurations :
                (/\ duration_of[call_duration] # None
                 /\ RecordsWithSid(store, call_sid) # {}
                 /\ CallStatusWebhookSaving(call_sid, call_status,
                                            call_duration, fault))
                    => FailureReported(call_status_webhook(
                           store, call_sid, call_status,
                           call_duration).phone_numbers)
          /\ ClearAllSaving(fault) => FailureReported(<<>>)]_vars

\* C20: records are never removed one by one: a step of any handler but
\* clear_all, in any interleaving of uploads and dispatches, keeps every
\* number that is in the store.
C20_OnlyClearAllRemoves ==
    [][last'.op # "clear_all"
          => \A p \in Records(store) :
                \E q \in Records(store') : q.number = p.number]_vars

StatusCount(phone_numbers, statuses) ==
    Cardinality({i \in 1..Len(phone_numbers) :
                    phone_numbers[i].status \in statuses})

\* C21: call_stats, for every store, returns total = the number of records,
\* completed = the records completed, failed = the records failed, busy or
\* no-answer, pending and calling = the records in those states, and for the
\* empty store total 0 and the success rate "0%".
C21_StatsCounts ==
    LET r == call_stats(store)
    IN  /\ r.total = Len(store)
        /\ r.completed = StatusCount(store, {"completed"})
        /\ r.failed = StatusCount(store, {"failed", "busy", "no-answer"})
        /\ r.pending = StatusCount(store, {"pending"})
        /\ r.calling = StatusCount(store, {"calling"})
        /\ store = <<>> => r.total = 0 /\ r.success_rate = "0%"
        /\ last.op = "call_stats" => last = r

\* call_stats has answered for a store with a busy record and a completed
\* one.
C21_Witness ==
    /\ last.op = "call_stats" /\ last.total = 2
    /\ last.completed = 1 /\ last.failed = 1
    /\ last.success_rate = "50.0%"
    /\ \E p \in Records(store) : p.status = "busy"

\* C22: export_calls emits the header row and then one row per record in
\* the order of the store, and the called-at column of a record without
\* called_at holds the placeholder, not the empty value.
C22_ExportRows ==
    last.op = "export_calls"
        => /\ last.success
           /\ Len(last.csv) = Len(store) + 1
           /\ last.csv[1] = Header
           /\ \A i \in 1..Len(store) :
                 /\ last.csv[i + 1][1] = store[i].number
                 /\ last.csv[i + 1][2] = store[i].status
                 /\ last.csv[i + 1][3] = ToString(store[i].duration)
                 /\ store[i].called_at = None
                        => /\ last.csv[i + 1][4] = Placeholder
                           /\ last.csv[i + 1][4] # ""

\* A text has a phone-number-like substring: a plus or a digit followed by
\* at least eight digits, spaces, dashes or parentheses.
PhoneLike(text) ==
    \E i \in 1..Len(text) :
        /\ text[i] \in {"+"} \cup Digit
        /\ i + 8 <= Len(text)
        /\ \A j \in (i + 1)..(i + 8) :
              text[j] \in Digit \cup {" ", "\t", "\n", "\r", "-", "(", ")"}

NoNumberCommands == {command \in Commands : ~PhoneLike(command)}

\* C23: ai_call on a command without a phone-number-like substring fails
\* with the no-number error, saves the list as it loaded it and places no
\* call, whatever the provider would have answered.
C23_NoNumberNoChange ==
    \A command \in NoNumberCommands, outcome \in Outcomes :
        LET r == ai_call(store, command, twilio_client, outcome, nextSid)
        IN  /\ r.phone_numbers = store
            /\ r.calls = nextSid
            /\ ~r.last.success
            /\ r.last.message = FailureMark \o "Could not find phone number"

\* ai_call has answered with the no-number error while records are stored
\* and the provider is configured.
C23_Witness ==
    /\ last.op = "ai_call" /\ ~last.success
    /\ last.message = FailureMark \o "Could not find phone number"
    /\ twilio_client /\ store # <<>>
    /\ NoNumberCommands # {}

\* C24: a status event that finds a match changes only the first record
\* with the call_sid, and of that record only status and duration: its id,
\* number, call_sid, called_at, created_at and notes, every other record, and
\* the number and order of the records stay as they are.
C24_EventFrame ==
    \A call_sid \in CallSids, call_status \in CallStatuses,
       call_duration \in CallDurations :
        RecordsWithSid(store, call_sid) # {}
            => LET after == call_status_webhook(store, call_sid, call_status,
                                                call_duration).phone_numbers
                   first == CHOOSE i \in RecordsWithSid(store, call_sid) :
                                \A j \in RecordsWithSid(store, call_sid) : i <= j
               IN  /\ Len(after) = Len(store)
                   /\ \A i \in 1..Len(store) : i # first => after[i] = store[i]
                   /\ after[first].id = store[first].id
                   /\ after[first].number = store[first].number
                   /\ after[first].call_sid = store[first].call_sid
                   /\ after[first].called_at = store[first].called_at
                   /\ after[first].created_at = store[first].created_at
                   /\ after[first].notes = store[first].notes

\* A status event has completed one of two dispatched records and the other
\* is still calling.
C24_Witness ==
    /\ last.op = "call_status" /\ last.status = "ok" /\ last.updated
    /\ Len(store) = 2
    /\ \E i, j \in 1..2 :
          /\ store[i].status = "completed" /\ store[i].duration # 0
          /\ store[i].call_sid # None
          /\ store[j].status = "calling" /\ store[j].duration = 0
          /\ store[j].call_sid # None

CountedStatuses ==
    {"pending", "calling", "completed", "failed", "busy", "no-answer"}

\* C25: in every reachable state the four counts of call_stats count no
\* record twice: their sum is the number of records whose status is pending,
\* calling, completed, failed, busy or no-answer, so it is at most total, and
\* equals total exactly when every record has one of these statuses.
C25_CountsPartition ==
    LET r == call_stats(store)
        sum == r.completed + r.failed + r.pending + r.calling
    IN  /\ sum = StatusCount(store, CountedStatuses)
        /\ sum <= r.total
        /\ (sum = r.total)
               <=> \A p \in Records(store) : p.status \in CountedStatuses

\* call_stats has answered for a store with a record whose status, stored
\* as a status event gave it, is counted in total only.
C25_Witness ==
    /\ last.op = "call_stats" /\ last.total = 2
    /\ last.completed + last.failed + last.pending + last.calling = 1
    /\ \E p \in Records(store) : p.status = "ringing"

====
